---------------------------- MODULE Spec2Model ----------------------------
(***************************************************************************)
(* A model of the USDA Food Data Central tool server (src/server.py):      *)
(* the HTTP request mediator make_fdc_request, the two response formatters *)
(* and the six tool handlers.                                              *)
(*                                                                         *)
(* Python values are tagged records:                                       *)
(*   [t |-> "null"]                 None / JSON null                       *)
(*   [t |-> "num",  n |-> 5]        an int                                 *)
(*   [t |-> "str",  s |-> "abc"]    a str held as one piece                *)
(*   [t |-> "text", p |-> <<..>>]   a str built by an f-string: its pieces *)
(*   [t |-> "chars", s |-> <<..>>]  a str held as its characters           *)
(*   [t |-> "arr",  a |-> <<..>>]   a list                                 *)
(*   [t |-> "obj",  f |-> [k |-> v]] a dict (f = <<>> is the empty dict)   *)
(* The str arguments the handlers parse (fdc_ids, nutrient_ids) are        *)
(* sequences of one-character strings, so that split, strip and int are    *)
(* computed character by character.  A text returned to the caller is a    *)
(* sequence of pieces; the literals of the source are "str" pieces.        *)
(***************************************************************************)
EXTENDS Integers, Sequences, FiniteSets, TLC

VARIABLES API_KEY, pc, call, mcall, wire, result, ret, acquired, released,
          netCalls, path, food

vars == <<API_KEY, pc, call, mcall, wire, result, ret, acquired, released,
          netCalls, path, food>>

---------------------------------------------------------------------------
(* Bounds of the model.                                                    *)

\* longest comma-separated list of ids handed to compare_foods
MaxIds == 6
\* longest foodNutrients sequence of a food record handed to a formatter
MaxNutrients == 11
\* most foods in an upstream search response
MaxFoods == 2

---------------------------------------------------------------------------
(* Python values.                                                          *)

JNull == [t |-> "null"]
JNum(n) == [t |-> "num", n |-> n]
JStr(s) == [t |-> "str", s |-> s]
JText(p) == [t |-> "text", p |-> p]
JArr(a) == [t |-> "arr", a |-> a]
JObj(f) == [t |-> "obj", f |-> f]
EmptyDict == JObj(<<>>)

\* bool(v)
Truthy(v) ==
    CASE v.t = "null" -> FALSE
      [] v.t = "num"  -> v.n # 0
      [] v.t = "str"  -> v.s # ""
      [] v.t = "text" -> v.p # <<>>
      [] v.t = "chars" -> v.s # <<>>
      [] v.t = "arr"  -> v.a # <<>>
      [] v.t = "obj"  -> DOMAIN v.f # {}

\* key in dict
HasKey(d, k) == k \in DOMAIN d.f

\* dict.get(key, default): a key that is present with the value None yields None
DictGet(d, k, default) == IF HasKey(d, k) THEN d.f[k] ELSE default

---------------------------------------------------------------------------
(* str arguments as sequences of characters.                               *)

Digits == <<"0", "1", "2", "3", "4", "5", "6", "7", "8", "9">>
IsDigit(c) == \E i \in 1..10 : Digits[i] = c
DigitVal(c) == (CHOOSE i \in 1..10 : Digits[i] = c) - 1
IsSpace(c) == c \in {" ", "\t", "\n"}

RECURSIVE LStrip(_)
LStrip(s) == IF s # <<>> /\ IsSpace(Head(s)) THEN LStrip(Tail(s)) ELSE s

RECURSIVE RStrip(_)
RStrip(s) ==
    IF s # <<>> /\ IsSpace(s[Len(s)]) THEN RStrip(SubSeq(s, 1, Len(s) - 1)) ELSE s

\* str.strip()
Strip(s) == RStrip(LStrip(s))

\* str.split(","): always at least one item, "" included
RECURSIVE SplitFrom(_, _)
SplitFrom(s, cur) ==
    IF s = <<>> THEN <<cur>>
    ELSE IF Head(s) = "," THEN <<cur>> \o SplitFrom(Tail(s), <<>>)
    ELSE SplitFrom(Tail(s), Append(cur, Head(s)))
Split(s) == SplitFrom(s, <<>>)

\* the digits of an int literal: digits, single underscores between them only
RECURSIVE DigitsOk(_, _)
DigitsOk(s, prevDigit) ==
    IF s = <<>> THEN prevDigit
    ELSE IF IsDigit(Head(s)) THEN DigitsOk(Tail(s), TRUE)
    ELSE IF Head(s) = "_" THEN prevDigit /\ DigitsOk(Tail(s), FALSE)
    ELSE FALSE

RECURSIVE DigitsVal(_, _)
DigitsVal(s, acc) ==
    IF s = <<>> THEN acc
    ELSE IF Head(s) = "_" THEN DigitsVal(Tail(s), acc)
    ELSE DigitsVal(Tail(s), 10 * acc + DigitVal(Head(s)))

\* int(s) of a str: surrounding whitespace and one sign are accepted;
\* ok = FALSE stands for ValueError
PyInt(s) ==
    LET b == Strip(s)
        signed == b # <<>> /\ Head(b) \in {"+", "-"}
        d == IF signed THEN Tail(b) ELSE b
    IN  IF DigitsOk(d, FALSE)
        THEN [ok |-> TRUE,
              v |-> IF signed /\ Head(b) = "-" THEN 0 - DigitsVal(d, 0)
                    ELSE DigitsVal(d, 0)]
        ELSE [ok |-> FALSE, v |-> 0]

\* a variant that converts the first item only
ParseIdsFirstOnly(s) ==
    LET first == PyInt(Strip(Split(s)[1]))
    IN  [ok |-> first.ok, ids |-> <<first.v>>]

\* [int(id.strip()) for id in s.split(",")]; ok = FALSE when any item raises
ParseIds(s) ==
    LET items == Split(s)
        parsed == [i \in 1..Len(items) |-> PyInt(Strip(items[i]))]
    IN  [ok |-> \A i \in 1..Len(items) : parsed[i].ok,
         ids |-> [i \in 1..Len(items) |-> parsed[i].v]]

\* str(n) of a natural number, as characters
RECURSIVE NatToStr(_)
NatToStr(n) ==
    IF n < 10 THEN <<Digits[n + 1]>>
    ELSE Append(NatToStr(n \div 10), Digits[(n % 10) + 1])

\* str(n) of an int
IntToStr(n) == IF n < 0 THEN <<"-">> \o NatToStr(0 - n) ELSE NatToStr(n)

\* ",".join(map(str, ids))
RECURSIVE JoinIds(_)
JoinIds(ids) ==
    IF ids = <<>> THEN <<>>
    ELSE IF Len(ids) = 1 THEN IntToStr(ids[1])
    ELSE IntToStr(ids[1]) \o <<",">> \o JoinIds(Tail(ids))

---------------------------------------------------------------------------
(* Texts.                                                                  *)

Lit(s) == JStr(s)

\* str(v) inside an f-string, as pieces
Render(v) ==
    CASE v.t = "null" -> <<Lit("None")>>
      [] v.t = "str"  -> <<v>>
      [] v.t = "text" -> v.p
      [] v.t = "num"  -> <<[t |-> "chars", s |-> IntToStr(v.n)]>>
      [] OTHER        -> <<[t |-> "repr", v |-> v]>>

\* the text has the literal s as one of its pieces
Contains(text, s) == \E i \in 1..Len(text) : text[i].t = "str" /\ text[i].s = s

\* what a call ends with: a returned str, or an uncaught exception
Returns(text) == [kind |-> "return", text |-> text, exc |-> ""]
Raises(exc) == [kind |-> "raise", text |-> <<>>, exc |-> exc]
NoRet == [kind |-> "none", text |-> <<>>, exc |-> ""]

---------------------------------------------------------------------------
(* Response formatters.                                                    *)

\* seq[:n]
Slice(seq, n) == SubSeq(seq, 1, IF Len(seq) < n THEN Len(seq) ELSE n)

\* "if amount and amount > 0": an amount that is missing (0), None or not
\* positive is not shown
AmountShown(amount) == Truthy(amount) /\ amount.n > 0

\* the body of the loop over nutrient entries:
\*   name = nutrient.get('nutrient', {}).get('name', 'Unknown')
\*   amount = nutrient.get('amount', 0)
\*   unit = nutrient.get('nutrient', {}).get('unitName', '')
\*   if amount and amount > 0: text += f"{indent}{name}: {amount} {unit}\n"
\* exc names the exception the entry raises, "" when it raises none
NutrientLine(nutrient, indent) ==
    IF nutrient.t # "obj" THEN [exc |-> "AttributeError", text |-> <<>>]
    ELSE LET nut == DictGet(nutrient, "nutrient", EmptyDict)
             amount == DictGet(nutrient, "amount", JNum(0))
         IN  IF nut.t # "obj" THEN [exc |-> "AttributeError", text |-> <<>>]
             ELSE IF Truthy(amount) /\ amount.t # "num"
             THEN [exc |-> "TypeError", text |-> <<>>]
             ELSE IF AmountShown(amount)
             THEN [exc |-> "",
                   text |-> indent
                            \o Render(DictGet(nut, "name", JStr("Unknown")))
                            \o <<Lit(": ")>> \o Render(amount) \o <<Lit(" ")>>
                            \o Render(DictGet(nut, "unitName", JStr("")))
                            \o <<Lit("\n")>>]
             ELSE [exc |-> "", text |-> <<>>]

\* the loop itself: the first entry that raises ends it
RECURSIVE NutrientLoop(_, _)
NutrientLoop(entries, indent) ==
    IF entries = <<>> THEN [exc |-> "", text |-> <<>>]
    ELSE LET line == NutrientLine(Head(entries), indent)
         IN  IF line.exc # "" THEN line
             ELSE LET rest == NutrientLoop(Tail(entries), indent)
                  IN  [exc |-> rest.exc, text |-> line.text \o rest.text]

\* food['foodNutrients'][:10], "Show top 10 nutrients"
DetailNutrientCap == 10
\* a variant that loops over every entry
AllNutrients(foodNutrients) == foodNutrients
DetailNutrients(foodNutrients) == Slice(foodNutrients, DetailNutrientCap)

format_food_summary(f) ==
    IF f.t # "obj" THEN Raises("AttributeError")
    ELSE Returns(
        <<Lit("Food: ")>> \o Render(DictGet(f, "description", JStr("Unknown")))
        \o <<Lit("\nFDC ID: ")>> \o Render(DictGet(f, "fdcId", JStr("N/A")))
        \o <<Lit("\nData Type: ")>> \o Render(DictGet(f, "dataType", JStr("Unknown")))
        \o <<Lit("\nBrand: ")>>
        \o (IF Truthy(DictGet(f, "brandOwner", JNull))
            THEN Render(DictGet(f, "brandOwner", JStr("N/A")))
            ELSE <<Lit("Generic")>>)
        \o <<Lit("\nPublished: ")>>
        \o Render(DictGet(f, "publishedDate", JStr("N/A"))))

\* the first four lines of the detail view, then the optional brand and
\* ingredients lines
DetailsHead(f) ==
    <<Lit("Food: ")>> \o Render(DictGet(f, "description", JStr("Unknown")))
    \o <<Lit("\nFDC ID: ")>> \o Render(DictGet(f, "fdcId", JStr("N/A")))
    \o <<Lit("\nData Type: ")>> \o Render(DictGet(f, "dataType", JStr("Unknown")))
    \o <<Lit("\nCategory: ")>>
    \o Render(DictGet(DictGet(f, "foodCategory", EmptyDict), "description", JStr("N/A")))
    \o <<Lit("\n")>>
    \o (IF Truthy(DictGet(f, "brandOwner", JNull))
        THEN <<Lit("Brand: ")>> \o Render(f.f["brandOwner"]) \o <<Lit("\n")>>
        ELSE <<>>)
    \o (IF Truthy(DictGet(f, "ingredients", JNull))
        THEN <<Lit("Ingredients: ")>> \o Render(f.f["ingredients"]) \o <<Lit("\n")>>
        ELSE <<>>)

NutritionHeader == <<Lit("\nNutritional Information (per 100g):\n")>>

format_food_details(f) ==
    IF f.t # "obj" THEN Raises("AttributeError")
    ELSE IF DictGet(f, "foodCategory", EmptyDict).t # "obj"
    THEN Raises("AttributeError")
    ELSE LET fn == DictGet(f, "foodNutrients", JNull)
         IN  IF ~Truthy(fn) THEN Returns(DetailsHead(f))
             ELSE IF fn.t # "arr" THEN Raises("TypeError")
             ELSE LET loop == NutrientLoop(DetailNutrients(fn.a), <<Lit("  ")>>)
                  IN  IF loop.exc # "" THEN Raises(loop.exc)
                      ELSE Returns(DetailsHead(f) \o NutritionHeader \o loop.text)

---------------------------------------------------------------------------
(* The HTTP request mediator make_fdc_request.                             *)

FDC_API_BASE == "https://api.nal.usda.gov/fdc/v1"

\* the arguments of one call of make_fdc_request; method, params and data
\* default to "GET", None and None
MCall(endpoint, method, params, data) ==
    [called |-> TRUE, endpoint |-> endpoint, method |-> method,
     params |-> params, data |-> data]
NoCall ==
    [called |-> FALSE, endpoint |-> <<>>, method |-> "", params |-> JNull,
     data |-> JNull]

\* an error marker {"error": message}
ErrorResult(pieces) == JObj([error |-> JText(pieces)])

\* a variant that tests "API_KEY is None"
KeyAbsentNoneOnly(key) == key.t = "null"

\* "if not API_KEY": None and "" both count as absent
KeyAbsent(key) == ~Truthy(key)
ApiKeyError ==
    ErrorResult(<<Lit("API key not set"), Lit(". Use set_api_key tool first.")>>)

\* method.upper(), on the method names the model uses
Upper(method) ==
    CASE method \in {"GET", "get", "Get"} -> "GET"
      [] method \in {"POST", "post"} -> "POST"
      [] method \in {"DELETE", "delete"} -> "DELETE"
      [] OTHER -> method

\* endpoint.lstrip('/'), the endpoint being a sequence of pieces
RECURSIVE LStripSlash(_)
LStripSlash(endpoint) ==
    IF endpoint # <<>> /\ endpoint[1] = Lit("/") THEN LStripSlash(Tail(endpoint))
    ELSE endpoint

\* params['api_key'] = API_KEY, params being {} when None was given
WithApiKey(params, key) ==
    IF params.t = "null" THEN JObj([api_key |-> key])
    ELSE JObj([api_key |-> key] @@ params.f)

\* the request client.get / client.post sends; a GET carries no json body
WireRequest(c, key) ==
    [sent |-> TRUE,
     verb |-> Upper(c.method),
     url |-> <<Lit(FDC_API_BASE), Lit("/")>> \o LStripSlash(c.endpoint),
     params |-> WithApiKey(c.params, key),
     json |-> IF Upper(c.method) = "POST" THEN c.data ELSE JNull]
NoWire == [sent |-> FALSE, verb |-> "", url |-> <<>>, params |-> JNull, json |-> JNull]

\* the method is one the mediator sends
Supported(method) == Upper(method) \in {"GET", "POST"}
UnsupportedError(method) ==
    ErrorResult(<<Lit("Unsupported HTTP method: "), Lit(method)>>)

\* response.raise_for_status() raises HTTPStatusError for a status outside 2xx
StatusRaises(status) == ~(200 =< status /\ status < 300)

\* what the try block makes of the upstream's answer o:
\*   o.k = "transport"  client.get / client.post raised (DNS, connect, timeout)
\*   o.k = "response"   a response with o.status; o.json is its parsed body,
\*                      or o.valid = FALSE for a body response.json() rejects
ResultOf(o) ==
    IF o.k = "transport"
    THEN ErrorResult(<<Lit("Request failed: "), Lit("transport failure")>>)
    ELSE IF StatusRaises(o.status)
    THEN ErrorResult(<<Lit("HTTP "), [t |-> "chars", s |-> IntToStr(o.status)],
                       Lit(": "), Lit("response text")>>)
    ELSE IF ~o.valid
    THEN ErrorResult(<<Lit("Request failed: "), Lit("invalid JSON")>>)
    ELSE o.json

\* a variant that closes the client after the try block, with no finally
ReleasedOnReturnOnly(how, n) == IF how = "return" THEN n + 1 ELSE n

\* the client is released when the "async with" block is left, however it
\* is left: by a return from the try block or from either except clause
ReleasedOnExit(how, n) == n + 1

---------------------------------------------------------------------------
(* Tool handlers.  Each handler is the part that runs up to its call of    *)
(* make_fdc_request (Pre: an early return, or the call's arguments) and    *)
(* the part that runs on the mediator's result (Post).                     *)

Early(r) == [early |-> TRUE, ret |-> r, req |-> NoCall]
Request(c) == [early |-> FALSE, ret |-> NoRet, req |-> c]

Chars(s) == [t |-> "chars", s |-> s]

\* "if not result or 'error' in result": "fail" takes the failure return,
\* "pass" goes on, "TypeError" is what the in-test raises on a number
ErrorGuard(r) ==
    IF ~Truthy(r) THEN "fail"
    ELSE IF r.t = "obj" THEN (IF HasKey(r, "error") THEN "fail" ELSE "pass")
    ELSE IF r.t = "arr"
    THEN (IF \E i \in 1..Len(r.a) : r.a[i].t = "str" /\ r.a[i].s = "error"
          THEN "fail" ELSE "pass")
    ELSE "TypeError"

\* return f"{prefix}{result.get('error', 'Unknown error')}": only a dict
\* has .get
FailureReturn(prefix, r) ==
    IF r.t = "obj"
    THEN Returns(<<Lit(prefix)>> \o Render(DictGet(r, "error", JStr("Unknown error"))))
    ELSE Raises("AttributeError")

\* ", ".join(items) of str literals
RECURSIVE JoinLits(_, _)
JoinLits(items, sep) ==
    IF items = <<>> THEN <<>>
    ELSE IF Len(items) = 1 THEN <<Lit(items[1])>>
    ELSE <<Lit(items[1]), Lit(sep)>> \o JoinLits(Tail(items), sep)

valid_types == <<"Foundation", "Branded", "Survey (FNDDS)", "Legacy", "Experimental">>
\* a variant that takes any non-empty data_type
AnyType(dt) == dt # ""
IsValidType(dt) == \E i \in 1..Len(valid_types) : valid_types[i] = dt

\* min(page_size, 50)
PageSizeLimit == 50
\* a variant that passes page_size on as it is
NoClamp(page_size) == page_size
ClampPageSize(page_size) == IF page_size < PageSizeLimit THEN page_size ELSE PageSizeLimit

InvalidDataType ==
    Returns(<<Lit("Invalid data type. Valid options: ")>> \o JoinLits(valid_types, ", "))

search_foods_pre(query, data_type, page_size) ==
    LET search_data == [query |-> JStr(query),
                        pageSize |-> JNum(ClampPageSize(page_size)),
                        pageNumber |-> JNum(1)]
        call_with(d) == Request(MCall(<<Lit("foods"), Lit("/"), Lit("search")>>,
                                      "POST", JNull, JObj(d)))
    IN  IF Truthy(data_type)
        THEN IF IsValidType(data_type.s)
             THEN call_with([dataType |-> JArr(<<data_type>>)] @@ search_data)
             ELSE Early(InvalidDataType)
        ELSE call_with(search_data)

\* [format_food_summary(food) for food in foods[:10]] joined by "\n---\n";
\* the first food that raises ends it
RECURSIVE SummaryLoop(_)
SummaryLoop(foods) ==
    IF foods = <<>> THEN [exc |-> "", text |-> <<>>]
    ELSE LET one == format_food_summary(Head(foods))
         IN  IF one.kind = "raise" THEN [exc |-> one.exc, text |-> <<>>]
             ELSE LET rest == SummaryLoop(Tail(foods))
                  IN  [exc |-> rest.exc,
                       text |-> one.text
                                \o (IF Len(foods) > 1 THEN <<Lit("\n---\n")>> ELSE <<>>)
                                \o rest.text]

SearchShown == 10
NoFoodsFound == Returns(<<Lit("No foods found for your search query.")>>)

\* the upstream's foods are a list, None or missing
search_foods_post(r) ==
    LET guard == ErrorGuard(r)
    IN  IF guard = "TypeError" THEN Raises("TypeError")
        ELSE IF guard = "fail" THEN FailureReturn("Search failed: ", r)
        ELSE IF r.t # "obj" THEN Raises("AttributeError")
        ELSE IF ~Truthy(DictGet(r, "foods", JNull)) THEN NoFoodsFound
        ELSE IF r.f["foods"].t # "arr" THEN Raises("TypeError")
        ELSE LET foods == r.f["foods"].a
                 total == DictGet(r, "totalHits", JNum(Len(foods)))
                 shownFoods == Slice(foods, SearchShown)
                 loop == SummaryLoop(shownFoods)
                 head == <<Lit("Found ")>> \o Render(total)
                         \o <<Lit(" foods. Showing top ")>>
                         \o Render(JNum(Len(shownFoods)))
                         \o <<Lit(" results:\n\n")>>
             IN  IF loop.exc # "" THEN Raises(loop.exc)
                 ELSE IF total.t # "num" THEN Raises("TypeError")
                 ELSE IF total.n > Len(shownFoods)
                 THEN Returns(head \o loop.text \o <<Lit("\n\n... and ")>>
                              \o Render(JNum(total.n - Len(shownFoods)))
                              \o <<Lit(" more results.")>>)
                 ELSE Returns(head \o loop.text)

FoodEndpoint(fdc_id) == <<Lit("food"), Lit("/"), Chars(IntToStr(fdc_id))>>

get_food_details_pre(fdc_id) ==
    Request(MCall(FoodEndpoint(fdc_id), "GET", JNull, JNull))

get_food_details_post(r) ==
    LET guard == ErrorGuard(r)
    IN  IF guard = "TypeError" THEN Raises("TypeError")
        ELSE IF guard = "fail" THEN FailureReturn("Failed to get food details: ", r)
        ELSE format_food_details(r)

InvalidNutrientIds ==
    Returns(<<Lit("Invalid nutrient IDs. Provide comma-separated numbers (e.g., '203,204,208')")>>)

get_food_nutrients_pre(fdc_id, nutrient_ids) ==
    IF Truthy(nutrient_ids)
    THEN LET parsed == ParseIds(nutrient_ids.s)
         IN  IF parsed.ok
             THEN Request(MCall(FoodEndpoint(fdc_id), "GET",
                                JObj([nutrients |-> Chars(JoinIds(parsed.ids))]), JNull))
             ELSE Early(InvalidNutrientIds)
    ELSE Request(MCall(FoodEndpoint(fdc_id), "GET", EmptyDict, JNull))

get_food_nutrients_post(r, fdc_id) ==
    LET guard == ErrorGuard(r)
    IN  IF guard = "TypeError" THEN Raises("TypeError")
        ELSE IF guard = "fail" THEN FailureReturn("Failed to get nutrient data: ", r)
        ELSE IF r.t # "obj" THEN Raises("AttributeError")
        ELSE LET head == <<Lit("Nutrient information for ")>>
                         \o Render(DictGet(r, "description", JStr("Unknown Food")))
                         \o <<Lit(" (FDC ID: ")>> \o Render(JNum(fdc_id))
                         \o <<Lit("):\n\n")>>
                 fn == DictGet(r, "foodNutrients", JNull)
             IN  IF ~Truthy(fn)
                 THEN Returns(head \o <<Lit("No nutrient data available.")>>)
                 ELSE IF fn.t # "arr" THEN Raises("TypeError")
                 ELSE LET loop == NutrientLoop(fn.a, <<>>)
                      IN  IF loop.exc # "" THEN Raises(loop.exc)
                          ELSE Returns(head \o loop.text)

MaxCompared == 5
TooManyFoods == Returns(<<Lit("Maximum 5 foods can be compared at once.")>>)
InvalidFdcIds ==
    Returns(<<Lit("Invalid FDC IDs. Provide comma-separated numbers (e.g., '123456,789012')")>>)
InvalidCompareNutrientIds ==
    Returns(<<Lit("Invalid nutrient IDs. Provide comma-separated numbers.")>>)

\* a variant that lets one id more through
TooManyOffByOne(ids) == Len(ids) > MaxCompared + 1
\* len(ids) > 5
TooMany(ids) == Len(ids) > MaxCompared

IntList(ids) == JArr([i \in 1..Len(ids) |-> JNum(ids[i])])

\* the whole list of ids is parsed before its length is looked at
compare_foods_pre(fdc_ids, nutrient_ids) ==
    LET parsed == ParseIds(fdc_ids)
        call_with(d) == Request(MCall(<<Lit("foods")>>, "POST", JNull, JObj(d)))
    IN  IF ~parsed.ok THEN Early(InvalidFdcIds)
        ELSE IF TooMany(parsed.ids) THEN Early(TooManyFoods)
        ELSE IF Truthy(nutrient_ids)
        THEN LET nutrients == ParseIds(nutrient_ids.s)
             IN  IF nutrients.ok
                 THEN call_with([fdcIds |-> IntList(parsed.ids),
                                 nutrients |-> IntList(nutrients.ids)])
                 ELSE Early(InvalidCompareNutrientIds)
        ELSE call_with([fdcIds |-> IntList(parsed.ids)])

\* food['foodNutrients'][:8], "Top 8 nutrients"
CompareNutrientCap == 8

\* one food of the comparison: its heading, its nutrient lines, a blank line
CompareBlock(f) ==
    IF f.t # "obj" THEN [exc |-> "AttributeError", text |-> <<>>]
    ELSE LET head == <<Lit("=== ")>> \o Render(DictGet(f, "description", JStr("Unknown")))
                     \o <<Lit(" (ID: ")>> \o Render(DictGet(f, "fdcId", JNull))
                     \o <<Lit(") ===\n")>>
             fn == DictGet(f, "foodNutrients", JNull)
         IN  IF ~Truthy(fn) THEN [exc |-> "", text |-> head \o <<Lit("\n")>>]
             ELSE IF fn.t # "arr" THEN [exc |-> "TypeError", text |-> <<>>]
             ELSE LET loop == NutrientLoop(Slice(fn.a, CompareNutrientCap), <<Lit("  ")>>)
                  IN  IF loop.exc # "" THEN loop
                      ELSE [exc |-> "", text |-> head \o loop.text \o <<Lit("\n")>>]

RECURSIVE CompareLoop(_)
CompareLoop(foods) ==
    IF foods = <<>> THEN [exc |-> "", text |-> <<>>]
    ELSE LET one == CompareBlock(Head(foods))
         IN  IF one.exc # "" THEN one
             ELSE LET rest == CompareLoop(Tail(foods))
                  IN  [exc |-> rest.exc, text |-> one.text \o rest.text]

NoFoodData == Returns(<<Lit("No food data found for the provided IDs.")>>)

compare_foods_post(r) ==
    LET guard == ErrorGuard(r)
    IN  IF guard = "TypeError" THEN Raises("TypeError")
        ELSE IF guard = "fail" THEN FailureReturn("Failed to compare foods: ", r)
        ELSE LET foods == IF r.t = "arr" THEN r.a ELSE <<>>
             IN  IF foods = <<>> THEN NoFoodData
                 ELSE LET loop == CompareLoop(foods)
                      IN  IF loop.exc # "" THEN Raises(loop.exc)
                          ELSE Returns(<<Lit("Food Comparison:\n\n")>> \o loop.text)

\* the two static tools: a fixed table rendered as text
get_nutrient_reference ==
    Returns(<<Lit("Common Nutrient IDs for filtering:\n\n"),
              Lit("203: Protein\n"), Lit("204: Total lipid (fat)\n"),
              Lit("205: Carbohydrate, by difference\n"), Lit("208: Energy (kcal)\n"),
              Lit("... 20 more lines, one per nutrient id ...\n"),
              Lit("\nUsage: Use these IDs with get_food_nutrients() or compare_foods()"),
              Lit("\nExample: get_food_nutrients(fdc_id=123456, nutrient_ids='203,204,208')")>>)

get_data_types ==
    Returns(<<Lit("Available Food Data Types:\n\n")>>
            \o JoinLits(valid_types, ":\n  ...\n\n")
            \o <<Lit(":\n  ...\n\n"),
                 Lit("Usage: Use these data type names with search_foods()"),
                 Lit("\nExample: search_foods(query='apple', data_type='Foundation')")>>)

---------------------------------------------------------------------------
(* Inputs.                                                                 *)

\* the credential read once at start-up: unset, empty, or a key
ApiKeys == {JNull, JStr(""), JStr("DEMO_KEY")}

DataTypeArgs ==
    {JNull, JStr(""), JStr("foundation"), JStr("Vegan")}
    \cup {JStr(valid_types[i]) : i \in 1..Len(valid_types)}
PageSizeArgs == {-5, 0, 1, 25, 49, 50, 51, 1000}
FdcIdArgs == {7, 123456}

\* items of a comma-separated list: a number, a number in blanks, a word
IdItems == {<<"1">>, <<" ", "2", "0", "3", " ">>, <<"x">>}

RECURSIVE JoinItems(_)
JoinItems(items) ==
    IF Len(items) = 1 THEN items[1]
    ELSE items[1] \o <<",">> \o JoinItems(Tail(items))

IdLists(n) == UNION {{JoinItems(items) : items \in [1..k -> IdItems]} : k \in 1..n}

\* "", " ", "-4", "+5", "1_0", "2.5", "1,,2"
OddStrings ==
    {<<>>, <<" ">>, <<"-", "4">>, <<"+", "5">>, <<"1", "_", "0">>,
     <<"2", ".", "5">>, <<"1", ",", ",", "2">>}

FdcIdsArgs == IdLists(MaxIds) \cup OddStrings

\* None, or "203", "203, 204", "203,abc", "abc" and the odd strings
NutrientIdsArgs ==
    {JNull}
    \cup {Chars(s) : s \in OddStrings}
    \cup {Chars(<<"2", "0", "3">>),
          Chars(<<"2", "0", "3", ",", " ", "2", "0", "4">>),
          Chars(<<"2", "0", "3", ",", "a", "b", "c">>),
          Chars(<<"a", "b", "c">>)}

\* the arguments of one invocation; a tool leaves the others at their default
Args(tool, data_type, page_size, fdc_id, fdc_ids, nutrient_ids, method) ==
    [tool |-> tool, query |-> "apple", data_type |-> data_type,
     page_size |-> page_size, fdc_id |-> fdc_id, fdc_ids |-> fdc_ids,
     nutrient_ids |-> nutrient_ids, method |-> method]
NoArgs == Args("", JNull, 25, 0, <<>>, JNull, "")

\* food records of upstream responses
Nutrient(name, amount) ==
    JObj([nutrient |-> JObj([name |-> JStr(name), unitName |-> JStr("g")]),
          amount |-> amount])
Apple ==
    JObj([description |-> JStr("Apple"), fdcId |-> JNum(7),
          dataType |-> JStr("Foundation"),
          foodCategory |-> JObj([description |-> JStr("Fruits")]),
          publishedDate |-> JStr("2020-01-01"),
          foodNutrients |-> JArr(<<Nutrient("Protein", JNum(0)),
                                   Nutrient("Fat", JNum(5))>>)])
\* a branded food whose category and one nutrient are null
Cereal ==
    JObj([description |-> JStr("Cereal"), fdcId |-> JNum(123456),
          dataType |-> JStr("Branded"), brandOwner |-> JStr("Acme"),
          foodCategory |-> JNull,
          foodNutrients |-> JArr(<<JObj([nutrient |-> JNull, amount |-> JNum(2)])>>)])
\* a food with nothing but its id
Bare == JObj([fdcId |-> JNum(9)])
SampleFoods == {Apple, Cereal, Bare}

FoodLists == UNION {[1..k -> SampleFoods] : k \in 1..MaxFoods}

\* bodies of a 2xx response, as response.json() parses them
Bodies ==
    {JNull, EmptyDict, JArr(<<>>), JNum(7),
     JObj([error |-> JStr("quota exceeded")]),
     JObj([totalHits |-> JNum(0)]),
     JObj([foods |-> JNull]),
     JObj([foods |-> JArr(<<>>), totalHits |-> JNum(0)])}
    \cup SampleFoods
    \cup {JArr(fs) : fs \in FoodLists}
    \cup {JObj([foods |-> JArr(fs)]) : fs \in FoodLists}
    \cup {JObj([foods |-> JArr(fs), totalHits |-> JNum(n)]) :
            fs \in FoodLists, n \in {1, 30}}
    \cup {JObj([foods |-> JArr(<<Apple>>), totalHits |-> JNull])}

\* what the upstream does with a request that was sent
Outcomes ==
    {[k |-> "transport", status |-> 0, valid |-> FALSE, json |-> JNull]}
    \cup {[k |-> "response", status |-> st, valid |-> FALSE, json |-> JNull] :
            st \in {200, 404, 500}}
    \cup {[k |-> "response", status |-> 200, valid |-> TRUE, json |-> b] : b \in Bodies}

\* the way the "async with" block is left
ExitPath(o) ==
    IF o.k = "transport" THEN "exception"
    ELSE IF StatusRaises(o.status) THEN "status"
    ELSE IF ~o.valid THEN "exception"
    ELSE "return"

---------------------------------------------------------------------------
(* The server: one invocation at a time, from its call to its return.      *)
(*   pc = "idle"      no invocation                                        *)
(*        "enter"     in make_fdc_request, before "async with"             *)
(*        "try"       the client is open, in the try block                 *)
(*        "awaiting"  the request is sent and awaited                      *)
(*        "exit"      the result is known, the "async with" is being left  *)
(*        "resume"    make_fdc_request has returned to its caller          *)
(*        "done"      the invocation has returned or raised                *)

IdleState ==
    /\ pc = "idle"
    /\ call = NoArgs
    /\ mcall = NoCall
    /\ wire = NoWire
    /\ result = JNull
    /\ ret = NoRet
    /\ acquired = 0
    /\ released = 0
    /\ netCalls = 0
    /\ path = ""

Init ==
    /\ API_KEY \in ApiKeys
    /\ food = EmptyDict
    /\ IdleState

\* a handler runs to its early return or into make_fdc_request, which
\* returns at once when the credential is absent
Start(c, pre) ==
    /\ call' = c
    /\ IF pre.early
       THEN /\ ret' = pre.ret
            /\ pc' = "done"
            /\ UNCHANGED <<mcall, result>>
       ELSE /\ mcall' = pre.req
            /\ ret' = NoRet
            /\ IF KeyAbsent(API_KEY)
               THEN result' = ApiKeyError /\ pc' = "resume"
               ELSE result' = JNull /\ pc' = "enter"
    /\ UNCHANGED <<API_KEY, food, wire, acquired, released, netCalls, path>>

InvokeSearchFoods ==
    /\ pc = "idle"
    /\ \E dt \in DataTypeArgs, ps \in PageSizeArgs :
           Start(Args("search_foods", dt, ps, 0, <<>>, JNull, ""),
                 search_foods_pre("apple", dt, ps))

InvokeGetFoodDetails ==
    /\ pc = "idle"
    /\ \E id \in FdcIdArgs :
           Start(Args("get_food_details", JNull, 25, id, <<>>, JNull, ""),
                 get_food_details_pre(id))

InvokeGetFoodNutrients ==
    /\ pc = "idle"
    /\ \E id \in FdcIdArgs, ns \in NutrientIdsArgs :
           Start(Args("get_food_nutrients", JNull, 25, id, <<>>, ns, ""),
                 get_food_nutrients_pre(id, ns))

InvokeCompareFoods ==
    /\ pc = "idle"
    /\ \E ids \in FdcIdsArgs, ns \in NutrientIdsArgs :
           Start(Args("compare_foods", JNull, 25, 0, ids, ns, ""),
                 compare_foods_pre(ids, ns))

InvokeGetNutrientReference ==
    /\ pc = "idle"
    /\ Start(Args("get_nutrient_reference", JNull, 25, 0, <<>>, JNull, ""),
             Early(get_nutrient_reference))

InvokeGetDataTypes ==
    /\ pc = "idle"
    /\ Start(Args("get_data_types", JNull, 25, 0, <<>>, JNull, ""),
             Early(get_data_types))

\* make_fdc_request called by itself, with any method
CallMediator ==
    /\ pc = "idle"
    /\ \E m \in {"GET", "get", "post", "DELETE", ""},
          e \in {<<Lit("foods")>>, <<Lit("/"), Lit("/"), Lit("foods")>>} :
           Start(Args("make_fdc_request", JNull, 25, 0, <<>>, JNull, m),
                 Request(MCall(e, m, JNull, JNull)))

\* async with httpx.AsyncClient() as client
ClientEnter ==
    /\ pc = "enter"
    /\ acquired' = acquired + 1
    /\ pc' = "try"
    /\ UNCHANGED <<API_KEY, food, call, mcall, wire, result, ret, released,
                   netCalls, path>>

\* await client.get(...) / await client.post(...)
SendRequest ==
    /\ pc = "try"
    /\ Supported(mcall.method)
    /\ wire' = WireRequest(mcall, API_KEY)
    /\ netCalls' = netCalls + 1
    /\ pc' = "awaiting"
    /\ UNCHANGED <<API_KEY, food, call, mcall, result, ret, acquired, released,
                   path>>

\* return {"error": f"Unsupported HTTP method: {method}"}
RejectMethod ==
    /\ pc = "try"
    /\ ~Supported(mcall.method)
    /\ result' = UnsupportedError(mcall.method)
    /\ path' = "unsupported"
    /\ pc' = "exit"
    /\ UNCHANGED <<API_KEY, food, call, mcall, wire, ret, acquired, released,
                   netCalls>>

\* the awaited request completes: a response, or an exception
Respond ==
    /\ pc = "awaiting"
    /\ \E o \in Outcomes :
        /\ result' = ResultOf(o)
        /\ path' = ExitPath(o)
    /\ pc' = "exit"
    /\ UNCHANGED <<API_KEY, food, call, mcall, wire, ret, acquired, released,
                   netCalls>>

\* the "async with" block is left and make_fdc_request returns
ClientExit ==
    /\ pc = "exit"
    /\ released' = ReleasedOnExit(path, released)
    /\ pc' = "resume"
    /\ UNCHANGED <<API_KEY, food, call, mcall, wire, result, ret, acquired,
                   netCalls, path>>

\* what the caller of make_fdc_request makes of its result
Post(c, r) ==
    CASE c.tool = "search_foods" -> search_foods_post(r)
      [] c.tool = "get_food_details" -> get_food_details_post(r)
      [] c.tool = "get_food_nutrients" -> get_food_nutrients_post(r, c.fdc_id)
      [] c.tool = "compare_foods" -> compare_foods_post(r)
      [] OTHER -> [kind |-> "value", text |-> <<>>, exc |-> ""]

HandlerResume ==
    /\ pc = "resume"
    /\ ret' = Post(call, result)
    /\ pc' = "done"
    /\ UNCHANGED <<API_KEY, food, call, mcall, wire, result, acquired, released,
                   netCalls, path>>

\* the next invocation starts from scratch: nothing but the credential is kept
NextInvocation ==
    /\ pc = "done"
    /\ pc' = "idle"
    /\ call' = NoArgs
    /\ mcall' = NoCall
    /\ wire' = NoWire
    /\ result' = JNull
    /\ ret' = NoRet
    /\ acquired' = 0
    /\ released' = 0
    /\ netCalls' = 0
    /\ path' = ""
    /\ UNCHANGED <<API_KEY, food>>

Next ==
    \/ InvokeSearchFoods
    \/ InvokeGetFoodDetails
    \/ InvokeGetFoodNutrients
    \/ InvokeCompareFoods
    \/ InvokeGetNutrientReference
    \/ InvokeGetDataTypes
    \/ CallMediator
    \/ ClientEnter
    \/ SendRequest
    \/ RejectMethod
    \/ Respond
    \/ ClientExit
    \/ HandlerResume
    \/ NextInvocation

Spec == Init /\ [][Next]_vars

---------------------------------------------------------------------------
(* The formatters on their own: a food record is handed to each of them.   *)

\* names for the entries of a generated foodNutrients sequence, taken from
\* the table of get_nutrient_reference
NutrientNames ==
    <<"Protein", "Total lipid (fat)", "Carbohydrate, by difference",
      "Energy (kcal)", "Sugars, total including NLEA", "Fiber, total dietary",
      "Calcium, Ca", "Iron, Fe", "Magnesium, Mg", "Phosphorus, P",
      "Potassium, K", "Sodium, Na", "Zinc, Zn",
      "Vitamin C, total ascorbic acid", "Thiamin (Vitamin B1)",
      "Riboflavin (Vitamin B2)", "Niacin (Vitamin B3)", "Vitamin B-6",
      "Folate, total", "Vitamin B-12", "Vitamin A, RAE", "Vitamin D (D2 + D3)",
      "Vitamin E (alpha-tocopherol)", "Vitamin K (phylloquinone)">>
NameAt(i) == NutrientNames[((i - 1) % Len(NutrientNames)) + 1]

EntryKinds ==
    {"plain", "zero", "negative", "noAmount", "nullAmount", "noNutrient",
     "nullNutrient", "noName", "nullName", "noUnit", "nullUnit"}

\* the i-th entry of a sequence: plain (a named nutrient, 5 g), or with one
\* field zero, negative, missing or null
EntryOf(kind, i) ==
    LET full == JObj([name |-> JStr(NameAt(i)), unitName |-> JStr("g")])
    IN  CASE kind = "plain" -> JObj([nutrient |-> full, amount |-> JNum(5)])
          [] kind = "zero" -> JObj([nutrient |-> full, amount |-> JNum(0)])
          [] kind = "negative" -> JObj([nutrient |-> full, amount |-> JNum(-1)])
          [] kind = "noAmount" -> JObj([nutrient |-> full])
          [] kind = "nullAmount" -> JObj([nutrient |-> full, amount |-> JNull])
          [] kind = "noNutrient" -> JObj([amount |-> JNum(5)])
          [] kind = "nullNutrient" -> JObj([nutrient |-> JNull, amount |-> JNum(5)])
          [] kind = "noName" ->
                JObj([nutrient |-> JObj([unitName |-> JStr("g")]), amount |-> JNum(5)])
          [] kind = "nullName" ->
                JObj([nutrient |-> JObj([name |-> JNull, unitName |-> JStr("g")]),
                      amount |-> JNum(5)])
          [] kind = "noUnit" ->
                JObj([nutrient |-> JObj([name |-> JStr(NameAt(i))]), amount |-> JNum(5)])
          [] kind = "nullUnit" ->
                JObj([nutrient |-> JObj([name |-> JStr(NameAt(i)), unitName |-> JNull]),
                      amount |-> JNum(5)])

\* sequences of up to MaxNutrients entries, plain but for the entries at a and b
\* a sequence of n entries, plain but for the entries at a and b
NutrientSeq(n, a, ka, b, kb) ==
    [i \in 1..n |-> EntryOf(IF i = a THEN ka ELSE IF i = b THEN kb ELSE "plain", i)]

NutrientFood(ns) ==
    JObj([description |-> JStr("Apple"), fdcId |-> JNum(7), foodNutrients |-> JArr(ns)])

ScalarFields ==
    {"description", "fdcId", "dataType", "brandOwner", "ingredients", "publishedDate"}
SampleValue(k) ==
    CASE k = "description" -> JStr("Apple")
      [] k = "fdcId" -> JNum(7)
      [] k = "dataType" -> JStr("Foundation")
      [] k = "brandOwner" -> JStr("Acme")
      [] k = "ingredients" -> JStr("Oats")
      [] k = "publishedDate" -> JStr("2020-01-01")

Absent == [t |-> "absent"]
CategoryArgs ==
    {Absent, JNull, EmptyDict, JObj([description |-> JNull]),
     JObj([description |-> JStr("Fruits")])}
NutrientsArgs == {Absent, JNull, JArr(<<>>), JArr(<<EntryOf("plain", 1)>>)}

\* a record with each scalar field missing, null or set, and the same for
\* its category and its nutrients
FieldFood(a, cat, fn) ==
    LET keys == {k \in ScalarFields : a[k] # "absent"}
                \cup (IF cat = Absent THEN {} ELSE {"foodCategory"})
                \cup (IF fn = Absent THEN {} ELSE {"foodNutrients"})
    IN  JObj([k \in keys |->
                CASE k = "foodCategory" -> cat
                  [] k = "foodNutrients" -> fn
                  [] OTHER -> IF a[k] = "null" THEN JNull ELSE SampleValue(k)])

\* the records handed to the formatters: a food with up to MaxNutrients
\* nutrient entries of which up to two are not plain, or a food with any of
\* its fields missing or null
FormatInput(f) ==
    \/ \E n \in 1..MaxNutrients :
         \E a \in 1..n, b \in 1..n, ka \in EntryKinds, kb \in EntryKinds :
            f = NutrientFood(NutrientSeq(n, a, ka, b, kb))
    \/ \E a \in [ScalarFields -> {"absent", "null", "value"}],
          cat \in CategoryArgs, fn \in NutrientsArgs :
            f = FieldFood(a, cat, fn)

InitFormat ==
    /\ API_KEY = JNull
    /\ FormatInput(food)
    /\ pc = "format"
    /\ call = NoArgs
    /\ mcall = NoCall
    /\ wire = NoWire
    /\ result = JNull
    /\ ret = NoRet
    /\ acquired = 0
    /\ released = 0
    /\ netCalls = 0
    /\ path = ""

FormatSummary ==
    /\ pc = "format"
    /\ ret' = format_food_summary(food)
    /\ pc' = "summary"
    /\ UNCHANGED <<API_KEY, food, call, mcall, wire, result, acquired, released,
                   netCalls, path>>

FormatDetails ==
    /\ pc = "format"
    /\ ret' = format_food_details(food)
    /\ pc' = "details"
    /\ UNCHANGED <<API_KEY, food, call, mcall, wire, result, acquired, released,
                   netCalls, path>>

NextFormat ==
    \/ FormatSummary
    \/ FormatDetails

SpecFormat == InitFormat /\ [][NextFormat]_vars

---------------------------------------------------------------------------
(* Properties.                                                             *)

HandlerTools ==
    {"search_foods", "get_food_details", "get_food_nutrients", "compare_foods",
     "get_nutrient_reference", "get_data_types"}
DataTools == {"search_foods", "get_food_details", "get_food_nutrients", "compare_foods"}

\* no call of make_fdc_request, no client, no request
NoNetwork == ~mcall.called /\ acquired = 0 /\ netCalls = 0 /\ ~wire.sent

\* some comma-separated item of s is not an int literal once trimmed
Malformed(s) ==
    LET items == Split(s) IN \E i \in 1..Len(items) : ~PyInt(Strip(items[i])).ok
ItemCount(s) == Len(Split(s))

\* C1: every invocation of a tool handler ends by returning a string, never
\* by raising, whatever make_fdc_request returned.
C1_NeverRaises ==
    (pc = "done" /\ call.tool \in HandlerTools) => ret.kind = "return"

\* the credential is None or ""
NoCredential == API_KEY \in {JNull, JStr("")}

\* C2: with the credential absent, every invocation of a data-fetching tool
\* returns a text containing "API key not set" and issues no network call.
C2_AlwaysKeyError ==
    (NoCredential /\ pc = "done" /\ call.tool \in DataTools)
        => /\ ret.kind = "return"
           /\ Contains(ret.text, "API key not set")
           /\ netCalls = 0

\* the arguments pass the handler's own validation
ArgsValid(c) ==
    CASE c.tool = "search_foods" ->
            ~Truthy(c.data_type)
            \/ c.data_type.s \in {"Foundation", "Branded", "Survey (FNDDS)",
                                  "Legacy", "Experimental"}
      [] c.tool = "get_food_nutrients" ->
            ~Truthy(c.nutrient_ids) \/ ~Malformed(c.nutrient_ids.s)
      [] c.tool = "compare_foods" ->
            /\ ~Malformed(c.fdc_ids)
            /\ ItemCount(c.fdc_ids) =< 5
            /\ ~Truthy(c.nutrient_ids) \/ ~Malformed(c.nutrient_ids.s)
      [] OTHER -> TRUE

\* C2 as amended: with the credential absent, no invocation of a
\* data-fetching tool opens a client or issues a network call, and it returns
\* a text containing "API key not set" exactly when its arguments pass the
\* handler's validation (otherwise it returns the validation message).
C2_KeyErrorWhenValid ==
    (NoCredential /\ call.tool \in DataTools)
        => /\ acquired = 0 /\ netCalls = 0 /\ ~wire.sent
           /\ pc = "done" =>
                /\ ret.kind = "return"
                /\ Contains(ret.text, "API key not set") <=> ArgsValid(call)

C2_Witness ==
    /\ API_KEY = JStr("")
    /\ pc = "done"
    /\ call.tool = "compare_foods"
    /\ mcall.called
    /\ Contains(ret.text, "API key not set")
    /\ netCalls = 0

\* C3: a comma-separated numeric argument that is given (a non-empty string)
\* and has an item that is not an integer yields one of the handler's
\* "Invalid nutrient IDs" / "Invalid FDC IDs" messages, and make_fdc_request
\* is never called.
C3_MalformedRejected ==
    /\ (call.tool = "get_food_nutrients" /\ Truthy(call.nutrient_ids)
        /\ Malformed(call.nutrient_ids.s))
            => pc = "done" /\ ret = InvalidNutrientIds /\ NoNetwork
    /\ (call.tool = "compare_foods" /\ Malformed(call.fdc_ids))
            => pc = "done" /\ ret = InvalidFdcIds /\ NoNetwork
    /\ (call.tool = "compare_foods" /\ Truthy(call.nutrient_ids)
        /\ Malformed(call.nutrient_ids.s))
            => /\ pc = "done"
               /\ ret \in {InvalidCompareNutrientIds, InvalidFdcIds}
               /\ NoNetwork

\* C3 as amended: a malformed argument is answered without any call of
\* make_fdc_request, by the argument's own message, except that compare_foods
\* looks at fdc_ids first: malformed nutrient_ids are answered "Invalid FDC
\* IDs" when fdc_ids is malformed too and "Maximum 5 foods" when fdc_ids
\* holds more than 5 ids.
C3_MalformedRejectedInOrder ==
    /\ (call.tool = "get_food_nutrients" /\ Truthy(call.nutrient_ids)
        /\ Malformed(call.nutrient_ids.s))
            => pc = "done" /\ ret = InvalidNutrientIds /\ NoNetwork
    /\ (call.tool = "compare_foods" /\ Malformed(call.fdc_ids))
            => pc = "done" /\ ret = InvalidFdcIds /\ NoNetwork
    /\ (call.tool = "compare_foods" /\ Truthy(call.nutrient_ids)
        /\ Malformed(call.nutrient_ids.s))
            => /\ pc = "done"
               /\ NoNetwork
               /\ ret = IF Malformed(call.fdc_ids) THEN InvalidFdcIds
                        ELSE IF ItemCount(call.fdc_ids) > 5 THEN TooManyFoods
                        ELSE InvalidCompareNutrientIds

C3_Witness ==
    /\ call.tool = "compare_foods"
    /\ ~Malformed(call.fdc_ids)
    /\ ItemCount(call.fdc_ids) = 2
    /\ Truthy(call.nutrient_ids)
    /\ Malformed(call.nutrient_ids.s)
    /\ ItemCount(call.nutrient_ids.s) = 2
    /\ pc = "done"
    /\ ret = InvalidCompareNutrientIds
    /\ NoNetwork

\* C4: a successful upstream response with an empty result set yields the
\* "no results" text: search_foods on a response object without foods (its
\* foods missing, null or empty), compare_foods on the empty list.
C4_EmptyResultText ==
    (pc = "done" /\ path = "return")
        => /\ (call.tool = "search_foods" /\ result.t = "obj"
               /\ DOMAIN result.f # {}
               /\ ~HasKey(result, "error")
               /\ ~Truthy(DictGet(result, "foods", JNull)))
                    => ret = Returns(<<Lit("No foods found for your search query.")>>)
           /\ (call.tool = "compare_foods" /\ result.t = "arr" /\ result.a = <<>>)
                    => ret = Returns(<<Lit("No food data found for the provided IDs.")>>)

\* C5: in one call of make_fdc_request, and so in one invocation, the client
\* is acquired at most once, at most one request is sent with it, the call
\* returns only after the request has completed, and an acquired client has
\* been released when the call returns, on every exit path.
C5_ClientScoped ==
    /\ acquired =< 1
    /\ netCalls =< acquired
    /\ released =< acquired
    /\ pc \in {"resume", "done"} =>
          /\ released = acquired
          /\ netCalls = 1 => path \in {"return", "status", "exception"}
          /\ (netCalls = 0 /\ acquired = 1) => path = "unsupported"
    /\ pc = "awaiting" => (netCalls = 1 /\ released = 0 /\ ret = NoRet)

C5_Witness ==
    /\ pc = "done"
    /\ call.tool = "get_food_details"
    /\ path = "exception"
    /\ acquired = 1
    /\ netCalls = 1
    /\ released = 1

\* the food has a non-empty list of nutrient entries
HasNutrients(f) ==
    /\ HasKey(f, "foodNutrients")
    /\ f.f["foodNutrients"].t = "arr"
    /\ f.f["foodNutrients"].a # <<>>

\* the entry has a numeric amount > 0
PositiveAmount(e) ==
    /\ e.t = "obj"
    /\ HasKey(e, "amount")
    /\ e.f["amount"].t = "num"
    /\ e.f["amount"].n > 0

\* "  name: amount unit\n" for an entry with a positive amount
LineOf(e) ==
    LET n == DictGet(e, "nutrient", EmptyDict)
        nut == IF n.t = "obj" THEN n ELSE EmptyDict
    IN  <<Lit("  ")>> \o Render(DictGet(nut, "name", JStr("Unknown")))
        \o <<Lit(": ")>> \o Render(e.f["amount"]) \o <<Lit(" ")>>
        \o Render(DictGet(nut, "unitName", JStr(""))) \o <<Lit("\n")>>

RECURSIVE LinesOf(_)
LinesOf(es) == IF es = <<>> THEN <<>> ELSE LineOf(Head(es)) \o LinesOf(Tail(es))

\* C6: the nutrient lines format_food_details shows are exactly the first 10
\* (or all, if fewer) of the entries whose amount is > 0, in their order.
C6_FirstTenPositive ==
    (pc = "details" /\ ret.kind = "return" /\ HasNutrients(food))
        => ret.text = DetailsHead(food) \o NutritionHeader
                      \o LinesOf(Slice(SelectSeq(food.f["foodNutrients"].a, PositiveAmount), 10))

\* C6 as amended: when format_food_details returns, the nutrient lines it
\* shows are exactly the entries with amount > 0 among the first 10 entries
\* of foodNutrients, in their order; entries after the 10th are never shown.
C6_PositiveOfFirstTen ==
    (pc = "details" /\ ret.kind = "return" /\ HasNutrients(food))
        => ret.text = DetailsHead(food) \o NutritionHeader
                      \o LinesOf(SelectSeq(Slice(food.f["foodNutrients"].a, 10), PositiveAmount))

C6_Witness ==
    /\ pc = "details"
    /\ ret.kind = "return"
    /\ HasNutrients(food)
    /\ Len(food.f["foodNutrients"].a) = 11
    /\ ~PositiveAmount(food.f["foodNutrients"].a[3])
    /\ ~HasKey(food.f["foodNutrients"].a[7], "amount")
    /\ PositiveAmount(food.f["foodNutrients"].a[11])
    /\ ret.text = DetailsHead(food) \o NutritionHeader
                  \o LinesOf(SelectSeq(SubSeq(food.f["foodNutrients"].a, 1, 10), PositiveAmount))
    /\ Len(SelectSeq(food.f["foodNutrients"].a, PositiveAmount)) = 9

\* the value with every null field taken out, at any depth
RECURSIVE StripNulls(_)
StripNulls(v) ==
    CASE v.t = "obj" ->
            JObj([k \in {j \in DOMAIN v.f : v.f[j].t # "null"} |-> StripNulls(v.f[k])])
      [] v.t = "arr" -> JArr([i \in 1..Len(v.a) |-> StripNulls(v.a[i])])
      [] OTHER -> v

\* C7: the formatters are total: on a record with any of its optional
\* fields missing or null they return a text and never raise.
C7_FormattersTotal ==
    pc \in {"summary", "details"} => ret.kind = "return"

\* the rest of C7: a null field reads like a missing one, by its placeholder
C7_NullAsMissing ==
    /\ (pc = "summary" /\ ret.kind = "return")
            => ret = format_food_summary(StripNulls(food))
    /\ (pc = "details" /\ ret.kind = "return")
            => ret = format_food_details(StripNulls(food))

\* C8: the pageSize of an outgoing foods/search request is 50 when
\* page_size > 50 and page_size otherwise, so never more than 50.
C8_PageSizeClamped ==
    (call.tool = "search_foods" /\ wire.sent)
        => /\ wire.verb = "POST"
           /\ wire.json.f["pageSize"] =
                 JNum(IF call.page_size > 50 THEN 50 ELSE call.page_size)
           /\ wire.json.f["pageSize"].n =< 50

C8_Witness ==
    /\ call.tool = "search_foods"
    /\ call.page_size = 1000
    /\ wire.sent
    /\ wire.json.f["pageSize"] = JNum(50)

\* C9: compare_foods with more than 5 ids in fdc_ids returns "Maximum 5
\* foods can be compared at once." and never calls the network, whatever
\* nutrient_ids is.
C9_TooManyFoods ==
    (call.tool = "compare_foods" /\ ~Malformed(call.fdc_ids)
     /\ ItemCount(call.fdc_ids) > 5)
        => /\ pc = "done"
           /\ ret = Returns(<<Lit("Maximum 5 foods can be compared at once.")>>)
           /\ NoNetwork

C9_Witness ==
    /\ call.tool = "compare_foods"
    /\ ~Malformed(call.fdc_ids)
    /\ ItemCount(call.fdc_ids) = 6
    /\ Truthy(call.nutrient_ids)
    /\ Malformed(call.nutrient_ids.s)
    /\ pc = "done"
    /\ ret = Returns(<<Lit("Maximum 5 foods can be compared at once.")>>)
    /\ NoNetwork

KnownTypes == {"Foundation", "Branded", "Survey (FNDDS)", "Legacy", "Experimental"}
InvalidTypeText ==
    Returns(<<Lit("Invalid data type. Valid options: "), Lit("Foundation"), Lit(", "),
              Lit("Branded"), Lit(", "), Lit("Survey (FNDDS)"), Lit(", "),
              Lit("Legacy"), Lit(", "), Lit("Experimental")>>)

\* a known data_type goes out as dataType = [data_type], both in the call
\* of make_fdc_request and in the request sent
KnownTypeSent ==
    (call.tool = "search_foods" /\ call.data_type.t = "str"
     /\ call.data_type.s \in KnownTypes)
        => /\ mcall.called
           /\ mcall.data.f["dataType"] = JArr(<<call.data_type>>)
           /\ wire.sent => wire.json.f["dataType"] = JArr(<<call.data_type>>)
           /\ (pc = "done" /\ ~NoCredential) => netCalls = 1

\* C10: search_foods with a data_type that is not one of the 5 known values
\* returns "Invalid data type. Valid options: " and the list of the 5 values
\* and makes no network call; with one of the 5, the request carries it.
C10_UnknownTypeRejected ==
    /\ (call.tool = "search_foods" /\ call.data_type.t = "str"
        /\ call.data_type.s \notin KnownTypes)
            => pc = "done" /\ ret = InvalidTypeText /\ NoNetwork
    /\ KnownTypeSent

\* C10 as amended: the same for a non-empty data_type; an empty data_type
\* counts as not given, and the request is issued without a dataType.
C10_NonEmptyUnknownTypeRejected ==
    /\ (call.tool = "search_foods" /\ call.data_type.t = "str"
        /\ call.data_type.s # "" /\ call.data_type.s \notin KnownTypes)
            => pc = "done" /\ ret = InvalidTypeText /\ NoNetwork
    /\ (call.tool = "search_foods" /\ ~Truthy(call.data_type))
            => /\ mcall.called
               /\ ~HasKey(mcall.data, "dataType")
               /\ wire.sent => ~HasKey(wire.json, "dataType")
    /\ KnownTypeSent

C10_Witness ==
    /\ call.tool = "search_foods"
    /\ call.data_type = JStr("Vegan")
    /\ pc = "done"
    /\ ret = InvalidTypeText
    /\ NoNetwork

=============================================================================
